---- MODULE Spec2Model ----
(***************************************************************************)
(* State-machine model of src/src/TeamSyncer.ts (class TeamSyncer): the    *)
(* team-synchronisation engine of the Slack <-> Matrix bridge.             *)
(*                                                                         *)
(* Every await of the source is a suspension point.  A task's pc names the *)
(* call whose promise is pending; one action is the continuation that runs *)
(* from the settlement of that promise to the next await (or to the return *)
(* or throw of the handler).  Collaborator calls (Slack web client, Matrix *)
(* intents, datastore, room registry) settle with a nondeterministic       *)
(* outcome.                                                                *)
(***************************************************************************)
EXTENDS Integers, Sequences, FiniteSets, TLC

VARIABLES
    config,       \* main.config.team_sync: <<[team, policy], ...>> in key order
    teamConfigs,  \* this.teamConfigs as left by the constructor
    query,        \* arguments of the last getTeamSyncConfig call applied
    answer,       \* what that call returned
    teamClients,  \* argument of syncAllTeams: team ids in insertion order
    teamTasks,    \* team ids handed to queue.add by syncAllTeams, in order
    rooms,        \* main.rooms: channel ids that have a link in the registry
    dsRooms,      \* main.datastore: channel ids whose link is persisted
    task,         \* running calls of syncChannel, syncUser and the live entry points
    memberPages,  \* remote: pages the conversations.members endpoint serves
    sat,          \* syncAllTeams: "idle", "onIdle" (awaiting the team queue), "returned"
    teamQueue,    \* team ids waiting in the team queue of syncAllTeams
    teamRun,      \* the team tasks the team queue is running (their syncItems call)
    teamDone,     \* how the promise of queue.add settled for each team task
    invite,       \* createRoomForChannel: creator, inviteList given, invite list sent
    wait          \* syncItems: the random draw (scaled, whole ms) and the delay waited

vars == <<config, teamConfigs, query, answer, teamClients, teamTasks,
          rooms, dsRooms, task, memberPages, sat, teamQueue, teamRun, teamDone, invite, wait>>

\* What no step of a channel or user call assigns.
env == <<config, teamConfigs, query, answer, teamClients, teamTasks, memberPages,
         sat, teamQueue, teamRun, teamDone, invite, wait>>
\* What no step of syncAllTeams or syncItems assigns.
fixed == <<config, teamConfigs, query, answer, teamClients, memberPages, invite, wait>>

-----------------------------------------------------------------------------
(* Identifiers                                                             *)

Teams == {"T1", "T2"}
AllKey == "all"
Keys == Teams \cup {AllKey}
Channels == {"c1", "c2"}
None == "none"

\* syncItems has not computed a delay.
NoWait == [draw |-> 0, ms |-> 0, waited |-> FALSE]

\* createRoomForChannel has not built an invite list.
NoInvite == [creatorUserId |-> None, inviteList |-> << >>, sent |-> << >>, built |-> FALSE]

\* No team task runs for the team.
NoRun == [team |-> None, type |-> None, pc |-> None, fetches |-> 0,
          cursor |-> "undefined", itemList |-> << >>, next |-> 0, error |-> None]

-----------------------------------------------------------------------------
(* ITeamSyncConfig (TeamSyncer.ts 12-19).  An optional member is a record  *)
(* with a `present` flag; alias_prefix plays no part in eligibility.       *)

NoList == [present |-> FALSE, ids |-> {}]
List(s) == [present |-> TRUE, ids |-> s]
Lists == {NoList, List({}), List({"c1"})}
NoChannels == [present |-> FALSE, whitelist |-> NoList, blacklist |-> NoList]
ChannelConfigs ==
    {NoChannels} \cup
    {[present |-> TRUE, whitelist |-> w, blacklist |-> b] : w \in Lists, b \in Lists}
ITeamSyncConfig == [enabled : BOOLEAN, channels : ChannelConfigs]

\* The value `false` returned by getTeamSyncConfig, and a returned policy.
Falsy == [ok |-> FALSE, policy |-> [enabled |-> FALSE, channels |-> NoChannels]]
Truthy(p) == [ok |-> TRUE, policy |-> p]

-----------------------------------------------------------------------------
(* constructor (TeamSyncer.ts 32-44): walks Object.keys(config.team_sync)  *)
(* in order; the first entry with enabled = false ends the constructor     *)
(* (`return`), so no later entry is stored.                                *)

RECURSIVE constructorLoop(_, _, _)
constructorLoop(cfg, k, acc) ==
    IF k > Len(cfg) THEN acc
    ELSE IF ~cfg[k].policy.enabled THEN acc
    ELSE constructorLoop(cfg, k + 1,
                         [t \in (DOMAIN acc) \cup {cfg[k].team} |->
                             IF t = cfg[k].team THEN cfg[k].policy ELSE acc[t]])

constructor(cfg) == constructorLoop(cfg, 1, << >>)

-----------------------------------------------------------------------------
(* getTeamSyncConfig (TeamSyncer.ts 122-147)                               *)

\* line 123: this.teamConfigs[teamId] || this.teamConfigs.all
lookupTeamConfig(tc, teamId) ==
    IF teamId \in DOMAIN tc THEN Truthy(tc[teamId])
    ELSE IF AllKey \in DOMAIN tc THEN Truthy(tc[AllKey])
    ELSE Falsy

\* line 133 dropped: the blacklist is never consulted.
getTeamSyncConfigNoBlacklist(tc, teamId, item, itemId) ==
    LET found == lookupTeamConfig(tc, teamId)
        channels == found.policy.channels
    IN
    IF ~found.ok THEN Falsy
    ELSE IF ~found.policy.enabled THEN Falsy
    ELSE IF item = "channel" /\ channels.present /\ itemId # None
              /\ channels.whitelist.present
              /\ itemId \notin channels.whitelist.ids
         THEN Falsy
    ELSE found

getTeamSyncConfig(tc, teamId, item, itemId) ==
    LET found == lookupTeamConfig(tc, teamId)
        channels == found.policy.channels
    IN
    IF ~found.ok THEN Falsy                                    \* 124-126
    ELSE IF ~found.policy.enabled THEN Falsy                   \* 127-129
    ELSE IF item = "channel" /\ channels.present /\ itemId # None   \* 131
         THEN IF channels.blacklist.present
                   /\ itemId \in channels.blacklist.ids        \* 132-137
              THEN Falsy
              ELSE IF channels.whitelist.present
                        /\ itemId \notin channels.whitelist.ids \* 138-143
                   THEN Falsy
                   ELSE found
    ELSE found                                                 \* 146

-----------------------------------------------------------------------------
(* Configurations the constructor may be given.  Object.keys yields each   *)
(* key once, in insertion order.                                           *)

IsInjective(s) == \A i, j \in DOMAIN s : s[i] = s[j] => i = j
KeyOrders == {s \in UNION {[1..n -> Keys] : n \in 0..Cardinality(Keys)} : IsInjective(s)}

\* A disabled entry carries no channel lists of interest: it is never stored.
ConfigPolicies == {p \in ITeamSyncConfig : p.enabled \/ ~p.channels.present}
ConfigsOver(policies) ==
    UNION {{[i \in DOMAIN ks |-> [team |-> ks[i], policy |-> ps[i]]] :
              ps \in [DOMAIN ks -> policies]} : ks \in KeyOrders}
Configs == ConfigsOver(ConfigPolicies)

HasEntry(cfg, key) == \E i \in DOMAIN cfg : cfg[i].team = key
EntryOf(cfg, key) == cfg[CHOOSE i \in DOMAIN cfg : cfg[i].team = key].policy

NoQuery == [teamId |-> None, item |-> None, itemId |-> None]
ItemKinds == {None, "user", "channel"}
ItemIds == Channels \cup {None}

-----------------------------------------------------------------------------
(* SpecPolicy: the policy filter applied to every configuration.           *)

InitPolicy ==
    /\ config \in Configs
    /\ teamConfigs = constructor(config)
    /\ query = NoQuery
    /\ answer = Falsy
    /\ teamClients = << >>
    /\ teamTasks = << >>
    /\ rooms = {} /\ dsRooms = {}
    /\ task = << >>
    /\ memberPages = 0
    /\ sat = "idle" /\ teamQueue = << >> /\ teamRun = [tm \in Teams |-> NoRun]
    /\ teamDone = [tm \in Teams |-> None]
    /\ invite = NoInvite
    /\ wait = NoWait

\* One call of getTeamSyncConfig(teamId, item, itemId); it assigns nothing.
CallGetTeamSyncConfig(teamId, item, itemId) ==
    /\ query = NoQuery
    /\ query' = [teamId |-> teamId, item |-> item, itemId |-> itemId]
    /\ answer' = getTeamSyncConfig(teamConfigs, teamId, item, itemId)
    /\ UNCHANGED <<config, teamConfigs, teamClients, teamTasks, rooms, dsRooms, task,
                   memberPages, sat, teamQueue, teamRun, teamDone, invite, wait>>

NextPolicy ==
    \E teamId \in Teams, item \in ItemKinds, itemId \in ItemIds :
        CallGetTeamSyncConfig(teamId, item, itemId)

SpecPolicy == InitPolicy /\ [][NextPolicy]_vars

-----------------------------------------------------------------------------
(* Claims about the policy filter                                          *)

\* C6: the explicit entry of a team is looked up first and the "all" entry
\* only when the team has no entry of its own; in particular a team whose
\* own entry has enabled = false is ineligible whatever else is configured
\* and in whatever order.
C6_ExplicitPolicyFirst ==
    (query.teamId # None /\ HasEntry(config, query.teamId)) =>
        /\ ~EntryOf(config, query.teamId).enabled => ~answer.ok
        /\ answer.ok => answer.policy = EntryOf(config, query.teamId)

\* The reference rule of C8, over the lists a policy configures.
Blacklisted(p, id) ==
    p.channels.present /\ p.channels.blacklist.present /\ id \in p.channels.blacklist.ids
WhitelistMissing(p, id) ==
    p.channels.present /\ p.channels.whitelist.present /\ id \notin p.channels.whitelist.ids
ReferenceEligible(p, id) == ~Blacklisted(p, id) /\ ~WhitelistMissing(p, id)

\* C8: for a team with a resolved, enabled policy the decision of
\* getTeamSyncConfig(teamId, "channel", id) is the reference rule (blacklist
\* rejects, also over the whitelist; else a present whitelist must hold id;
\* else eligible), the policy returned is the resolved one, and the call
\* leaves the configuration untouched.
C8_ChannelEligibilityRule ==
    [][(query' # query /\ query'.item = "channel" /\ query'.itemId \in Channels
           /\ lookupTeamConfig(teamConfigs, query'.teamId).ok
           /\ lookupTeamConfig(teamConfigs, query'.teamId).policy.enabled)
        => LET p == lookupTeamConfig(teamConfigs, query'.teamId).policy IN
           /\ answer'.ok <=> ReferenceEligible(p, query'.itemId)
           /\ answer'.ok => answer'.policy = p
           /\ teamConfigs' = teamConfigs /\ config' = config]_vars

\* C8 witness: a channel on both lists of the resolved policy was rejected,
\* and one with neither list configured was accepted.
C8_Witness ==
    /\ query.item = "channel" /\ query.itemId \in Channels
    /\ lookupTeamConfig(teamConfigs, query.teamId).ok
    /\ LET p == lookupTeamConfig(teamConfigs, query.teamId).policy IN
       /\ p.channels.present /\ p.channels.whitelist.present
       /\ query.itemId \in p.channels.whitelist.ids
       /\ Blacklisted(p, query.itemId)
       /\ ~answer.ok

-----------------------------------------------------------------------------
(* Channel reconciliation: syncChannel, onChannelAdded,                    *)
(* onDiscoveredPrivateChannel, onChannelDeleted.                           *)

NumTasks == 2             \* calls that may be in flight at once
Tasks == 1..NumTasks
MaxItems == 3             \* items the remote lists for one team and type
\* Where calls run: the live calls in Tasks, the i-th item of a list in slot i.
Slots == Tasks \cup 1..MaxItems
MainTeam == "T1"
RemoteMembers == {"U1"}

\* ConversationsInfo: the flags the engine reads of a channel item.
ChannelItems ==
    { [is_channel |-> TRUE,  is_private |-> FALSE, is_im |-> FALSE, is_mpim |-> FALSE],
      [is_channel |-> TRUE,  is_private |-> TRUE,  is_im |-> FALSE, is_mpim |-> FALSE],
      [is_channel |-> FALSE, is_private |-> TRUE,  is_im |-> TRUE,  is_mpim |-> FALSE],
      [is_channel |-> FALSE, is_private |-> TRUE,  is_im |-> FALSE, is_mpim |-> TRUE],
      [is_channel |-> FALSE, is_private |-> FALSE, is_im |-> FALSE, is_mpim |-> FALSE] }
NoItem == [is_channel |-> FALSE, is_private |-> FALSE, is_im |-> FALSE, is_mpim |-> FALSE]

Idle == [pc |-> "idle", kind |-> None, team |-> None, chan |-> None, item |-> NoItem,
         linkedAtStart |-> FALSE, isPublic |-> FALSE, n |-> 0, memberset |-> {},
         noticeFailed |-> FALSE, deleted |-> FALSE, leaving |-> {},
         inviteFailed |-> FALSE, exit |-> None]

\* A call entered by entry point `kind` for channel (or user) c of a team.
Entered(kind, teamId, c) == [Idle EXCEPT !.kind = kind, !.team = teamId, !.chan = c]
\* The call settled: it returned ("skipped": a guard rejected; "exists": a link
\* was found; "done": it ran to its end) or it threw to its caller.
Settled(r, how, why) ==
    [Entered(r.kind, r.team, r.chan) EXCEPT !.pc = how, !.exit = why,
                                    !.noticeFailed = r.noticeFailed]
Return(t, why) == task' = [task EXCEPT ![t] = Settled(task[t], "returned", why)]
Throw(t) == task' = [task EXCEPT ![t] = Settled(task[t], "threw", None)]
Goto(t, pc) == task' = [task EXCEPT ![t].pc = pc]
At(t, pc) == task[t].pc = pc

\* main.actionLink / main.actionUnlink: the link enters / leaves the registry
\* and the datastore.
actionLink(c) == rooms' = rooms \cup {c} /\ dsRooms' = dsRooms \cup {c}
actionUnlink(c) == rooms' = rooms \ {c} /\ dsRooms' = dsRooms \ {c}

\* ---- syncChannel (228-280) ----

syncChannelDisallowed(teamId, c) ==                                  \* 230-233
    ~getTeamSyncConfig(teamConfigs, teamId, "channel", c).ok
\* The existence check of 235 left out.
syncChannelExistingUnchecked(c) == FALSE
syncChannelExisting(c) == c \in rooms                                \* 235-239
\* The privacy test of 240 left out.
syncChannelNotPublicLax(item) == ~item.is_channel
syncChannelNotPublic(item) == ~item.is_channel \/ item.is_private    \* 240-243

\* 229-234: syncChannel(teamId, channelItem) up to await getTeamClient.
syncChannelEnter(r) ==
    IF syncChannelDisallowed(r.team, r.chan)
    THEN Settled(r, "returned", "skipped")
    ELSE [r EXCEPT !.pc = "getTeamClient"]

\* The item queue of syncItems runs syncChannel(teamId, item) (113).  The
\* flags of the item are first read at 240 and are drawn there.
StartSyncChannel(t) ==
    /\ At(t, "idle")
    /\ \E c \in Channels :
         task' = [task EXCEPT ![t] =
                    syncChannelEnter([Entered("syncChannel", MainTeam, c) EXCEPT
                                         !.linkedAtStart = (c \in rooms)])]
    /\ UNCHANGED <<rooms, dsRooms, env>>

\* 234-245: getTeamClient settled.
SyncGetTeamClient(t) ==
    /\ At(t, "getTeamClient")
    /\ \E ok \in BOOLEAN, item \in ChannelItems :
         /\ task[t].kind = "onChannelAdded" => item = task[t].item
         /\ IF ~ok THEN Throw(t)
            ELSE IF syncChannelExisting(task[t].chan) THEN Return(t, "exists")
            ELSE IF syncChannelNotPublic(item) THEN Return(t, "skipped")
            ELSE task' = [task EXCEPT ![t].pc = "getTeam", ![t].item = item]
    /\ UNCHANGED <<rooms, dsRooms, env>>

\* 245-246: datastore.getTeam settled; a missing record makes `!.user_id` throw.
SyncGetTeam(t) ==
    /\ At(t, "getTeam")
    /\ \E ok \in BOOLEAN : IF ok THEN Goto(t, "usersInfo") ELSE Throw(t)
    /\ UNCHANGED <<rooms, dsRooms, env>>

\* 246-248: users.info settled.
SyncUsersInfo(t) ==
    /\ At(t, "usersInfo")
    /\ \E ok \in BOOLEAN : IF ok THEN Goto(t, "getClientForSlackUser") ELSE Throw(t)
    /\ UNCHANGED <<rooms, dsRooms, env>>

\* 248-259: getClientForSlackUser settled; no client or a throw goes to the hint.
SyncGetClientForSlackUser(t) ==
    /\ At(t, "getClientForSlackUser")
    /\ \E ok \in BOOLEAN :
         IF ok THEN Goto(t, "invite")
         ELSE task' = [task EXCEPT ![t].pc = "postEphemeral", ![t].inviteFailed = TRUE]
    /\ UNCHANGED <<rooms, dsRooms, env>>

\* 271, 336: createRoomForChannel(teamId, creator, channelItem) with isPublic
\* defaulted to true, up to await getGhostForSlack.  The exception caught at
\* 259 is out of scope.
syncCreateRoomEntered(r) ==
    [r EXCEPT !.pc = "getGhost", !.isPublic = TRUE, !.inviteFailed = FALSE]
syncCreateRoom(t) == task' = [task EXCEPT ![t] = syncCreateRoomEntered(@)]

\* 252-261: where syncChannel goes when conversations.invite settled.
afterInviteAlwaysHint(r, ok) ==
    [r EXCEPT !.pc = "postEphemeral", !.inviteFailed = ~ok]
afterInvite(r, ok) ==
    IF ok THEN syncCreateRoomEntered(r)
    ELSE [r EXCEPT !.pc = "postEphemeral", !.inviteFailed = TRUE]

\* 252-259, 271: conversations.invite settled.
SyncInvite(t) ==
    /\ At(t, "invite")
    /\ \E ok \in BOOLEAN : task' = [task EXCEPT ![t] = afterInvite(@, ok)]
    /\ UNCHANGED <<rooms, dsRooms, env>>

\* 259-271: chat.postEphemeral settled, either way.
SyncPostEphemeral(t) ==
    /\ At(t, "postEphemeral")
    /\ syncCreateRoom(t)
    /\ UNCHANGED <<rooms, dsRooms, env>>

\* ---- createRoomForChannel (332-392) ----

\* 336-357: getGhostForSlack settled (a failure falls back to the bot intent);
\* intent.createRoom is called.
CreateRoomGetGhost(t) ==
    /\ At(t, "getGhost")
    /\ Goto(t, "createRoom")
    /\ UNCHANGED <<rooms, dsRooms, env>>

\* 357-391 and the caller's continuation: 272 (syncChannel) or 187-197
\* (onDiscoveredPrivateChannel, which writes the registry before the datastore).
CreateRoomSettled(t) ==
    /\ At(t, "createRoom")
    /\ \E ok \in BOOLEAN :
         IF ~ok THEN Return(t, "done") /\ UNCHANGED <<rooms, dsRooms>>
         ELSE IF task[t].kind = "onDiscoveredPrivateChannel"
              THEN /\ Goto(t, "dsUpsertRoom")
                   /\ rooms' = rooms \cup {task[t].chan}
                   /\ UNCHANGED dsRooms
              ELSE Goto(t, "actionLink") /\ UNCHANGED <<rooms, dsRooms>>
    /\ UNCHANGED env

\* 272-279: main.actionLink settled.
SyncActionLink(t) ==
    /\ At(t, "actionLink")
    /\ \E ok \in BOOLEAN :
         IF ok THEN Return(t, "done") /\ actionLink(task[t].chan)
         ELSE Return(t, "done") /\ UNCHANGED <<rooms, dsRooms>>
    /\ UNCHANGED env

\* ---- onChannelAdded (149-164) ----

addedExisting(c) == c \in rooms                                      \* 152-156
addedNotPublic(item) == ~item.is_channel \/ item.is_private          \* 159-162

\* 151-157: onChannelAdded(teamId, channelId, ...) up to await getTeamClient.
OnChannelAdded(t) ==
    /\ At(t, "idle")
    /\ \E c \in Channels :
         task' = [task EXCEPT ![t] =
                    IF addedExisting(c)
                    THEN Settled(Entered("onChannelAdded", MainTeam, c), "returned", "exists")
                    ELSE [Entered("onChannelAdded", MainTeam, c) EXCEPT !.pc = "addedGetTeamClient"]]
    /\ UNCHANGED <<rooms, dsRooms, env>>

\* 157-158: getTeamClient settled.
AddedGetTeamClient(t) ==
    /\ At(t, "addedGetTeamClient")
    /\ \E ok \in BOOLEAN : IF ok THEN Goto(t, "conversationsInfo") ELSE Throw(t)
    /\ UNCHANGED <<rooms, dsRooms, env>>

\* 158-163: conversations.info settled with the channel; syncChannel is entered.
AddedConversationsInfo(t) ==
    /\ At(t, "conversationsInfo")
    /\ \E ok \in BOOLEAN, item \in ChannelItems :
         IF ~ok THEN Throw(t)
         ELSE IF addedNotPublic(item) THEN Return(t, "skipped")
         ELSE task' = [task EXCEPT ![t] = syncChannelEnter([task[t] EXCEPT !.item = item])]
    /\ UNCHANGED <<rooms, dsRooms, env>>

\* ---- onDiscoveredPrivateChannel (166-201), mapChannelMembershipToMatrixIds (394-416) ----

privateDisallowed(teamId, c) ==                                      \* 169-172
    ~getTeamSyncConfig(teamConfigs, teamId, "channel", c).ok
privateExisting(c) == c \in rooms                                    \* 173-177
privateNotPrivate(item) ==                                           \* 178-181
    item.is_im \/ item.is_mpim \/ ~item.is_private

\* 167-185, 395: onDiscoveredPrivateChannel(teamId, client, chanInfo) up to
\* await getTeam inside the try.
OnDiscoveredPrivateChannel(t) ==
    /\ At(t, "idle")
    /\ \E c \in Channels, item \in ChannelItems :
         LET r == Entered("onDiscoveredPrivateChannel", MainTeam, c) IN
         task' = [task EXCEPT ![t] =
                IF privateDisallowed(MainTeam, c) THEN Settled(r, "returned", "skipped")
                ELSE IF privateExisting(c) THEN Settled(r, "returned", "exists")
                ELSE IF privateNotPrivate(item) THEN Settled(r, "returned", "skipped")
                ELSE [r EXCEPT !.pc = "mapGetTeam", !.item = item]]
    /\ UNCHANGED <<rooms, dsRooms, env>>

\* 395-402: datastore.getTeam settled; no team or no domain throws into the
\* catch of 198.  Otherwise the first members page is requested.
MapGetTeam(t) ==
    /\ At(t, "mapGetTeam")
    /\ \E ok \in BOOLEAN :
         IF ok THEN task' = [task EXCEPT ![t].pc = "members", ![t].n = 1]
         ELSE Return(t, "done")
    /\ UNCHANGED <<rooms, dsRooms, env>>

\* 401: the loop of mapChannelMembershipToMatrixIds goes on while this holds
\* (n pages requested so far).
membersLoopContinues(cursor, n) == cursor # ""

\* 186, 336: createRoomForChannel(..., false, members) up to await getGhostForSlack.
privateCreateRoom(t) ==
    task' = [task EXCEPT ![t].pc = "getGhost", ![t].isPublic = FALSE, ![t].memberset = {}]

\* 401-410: a members page arrived; the remote names a next page while it has one.
MapMembersPage(t) ==
    /\ At(t, "members")
    /\ \E ok \in BOOLEAN, members \in SUBSET RemoteMembers, cursor \in {"", "more"} :
         /\ cursor = "more" <=> task[t].n < memberPages
         /\ IF ~ok THEN Return(t, "done")
            ELSE IF membersLoopContinues(cursor, task[t].n)
            THEN task' = [task EXCEPT ![t].n = @ + 1,
                                      ![t].memberset = @ \cup members]
            ELSE IF task[t].memberset \cup members = {}
            THEN privateCreateRoom(t)
            ELSE task' = [task EXCEPT ![t].pc = "getPuppet",
                                      ![t].memberset = @ \cup members]
    /\ UNCHANGED <<rooms, dsRooms, env>>

\* 409-415: getPuppetMatrixUserBySlackId settled for one member of the set.
MapGetPuppet(t) ==
    /\ At(t, "getPuppet")
    /\ \E ok \in BOOLEAN, member \in task[t].memberset :
         IF ~ok THEN Return(t, "done")
         ELSE IF task[t].memberset = {member} THEN privateCreateRoom(t)
         ELSE task' = [task EXCEPT ![t].memberset = @ \ {member}]
    /\ UNCHANGED <<rooms, dsRooms, env>>

\* 197-200: datastore.upsertRoom settled; the registry was written at 196.
PrivateUpsertRoom(t) ==
    /\ At(t, "dsUpsertRoom")
    /\ \E ok \in BOOLEAN :
         IF ok THEN Return(t, "done") /\ dsRooms' = dsRooms \cup {task[t].chan}
         ELSE Return(t, "done") /\ UNCHANGED dsRooms
    /\ UNCHANGED <<rooms, env>>

\* ---- onChannelDeleted (282-314) ----

deletedDisallowed(teamId, c) ==                                      \* 284-286
    ~getTeamSyncConfig(teamConfigs, teamId, "channel", c).ok
deletedNoRoom(c) == c \notin rooms                                   \* 287-291

\* 283-294: onChannelDeleted(teamId, channelId) up to await sendMessage.
OnChannelDeleted(t) ==
    /\ At(t, "idle")
    /\ \E c \in Channels :
         LET r == Entered("onChannelDeleted", MainTeam, c) IN
         task' = [task EXCEPT ![t] =
                IF deletedDisallowed(MainTeam, c) \/ deletedNoRoom(c)
                THEN Settled(r, "returned", "skipped")
                ELSE [r EXCEPT !.pc = "sendMessage"]]
    /\ UNCHANGED <<rooms, dsRooms, env>>

\* A notice whose failure ends the handler.
afterNoticeAbort(r, ok) ==
    IF ok THEN [r EXCEPT !.pc = "setRoomDirectoryVisibility"]
    ELSE Settled([r EXCEPT !.noticeFailed = TRUE], "returned", "done")

\* 293-304: the catch of 298 swallows a failed notice; hiding the room is next.
afterNotice(r, ok) ==
    [r EXCEPT !.pc = "setRoomDirectoryVisibility", !.noticeFailed = ~ok]

\* 294-304: botIntent.sendMessage settled.
DeletedSendMessage(t) ==
    /\ At(t, "sendMessage")
    /\ \E ok \in BOOLEAN : task' = [task EXCEPT ![t] = afterNotice(task[t], ok)]
    /\ UNCHANGED <<rooms, dsRooms, env>>

\* 304-310: setRoomDirectoryVisibility settled, either way.
DeletedSetVisibility(t) ==
    /\ At(t, "setRoomDirectoryVisibility")
    /\ Goto(t, "actionUnlink")
    /\ UNCHANGED <<rooms, dsRooms, env>>

\* 310-314: main.actionUnlink settled.
DeletedActionUnlink(t) ==
    /\ At(t, "actionUnlink")
    /\ \E ok \in BOOLEAN :
         IF ok THEN Return(t, "unlinked") /\ actionUnlink(task[t].chan)
         ELSE Return(t, "done") /\ UNCHANGED <<rooms, dsRooms>>
    /\ UNCHANGED env

\* The caller observes the settled promise; the slot is free again.
Reap(t) ==
    /\ task[t].pc \in {"returned", "threw"}
    /\ task' = [task EXCEPT ![t] = Idle]
    /\ UNCHANGED <<rooms, dsRooms, env>>

-----------------------------------------------------------------------------
(* Spec: the live entry points and syncChannel calls of team T1, in any    *)
(* interleaving, under the policy {enabled, channels: {whitelist: [c1]}}.  *)

MainConfig ==
    <<[team |-> MainTeam,
       policy |-> [enabled |-> TRUE,
                   channels |-> [present |-> TRUE, whitelist |-> List({"c1"}),
                                 blacklist |-> NoList]]]>>

Init ==
    /\ config = MainConfig
    /\ teamConfigs = constructor(config)
    /\ query = NoQuery
    /\ answer = Falsy
    /\ teamClients = << >>
    /\ teamTasks = << >>
    /\ rooms \in SUBSET Channels
    /\ dsRooms = rooms
    /\ task = [t \in Slots |-> Idle]
    /\ memberPages = 2
    /\ sat = "idle" /\ teamQueue = << >> /\ teamRun = [tm \in Teams |-> NoRun]
    /\ teamDone = [tm \in Teams |-> None]
    /\ invite = NoInvite
    /\ wait = NoWait

Next ==
    \E t \in Tasks :
        \/ StartSyncChannel(t)
        \/ SyncGetTeamClient(t)
        \/ SyncGetTeam(t)
        \/ SyncUsersInfo(t)
        \/ SyncGetClientForSlackUser(t)
        \/ SyncInvite(t)
        \/ SyncPostEphemeral(t)
        \/ CreateRoomGetGhost(t)
        \/ CreateRoomSettled(t)
        \/ SyncActionLink(t)
        \/ OnChannelAdded(t)
        \/ AddedGetTeamClient(t)
        \/ AddedConversationsInfo(t)
        \/ OnDiscoveredPrivateChannel(t)
        \/ MapGetTeam(t)
        \/ MapMembersPage(t)
        \/ MapGetPuppet(t)
        \/ PrivateUpsertRoom(t)
        \/ OnChannelDeleted(t)
        \/ DeletedSendMessage(t)
        \/ DeletedSetVisibility(t)
        \/ DeletedActionUnlink(t)
        \/ Reap(t)

Spec == Init /\ [][Next]_vars

-----------------------------------------------------------------------------
(* SpecMembers: onDiscoveredPrivateChannel against a members endpoint that *)
(* keeps naming a next page.                                               *)

MaxMemberPages == 12      \* pages until the remote returns the empty cursor
TEAM_SYNC_FAILSAFE == 10

InitMembers ==
    /\ config = MainConfig
    /\ teamConfigs = constructor(config)
    /\ query = NoQuery
    /\ answer = Falsy
    /\ teamClients = << >>
    /\ teamTasks = << >>
    /\ rooms \in SUBSET Channels
    /\ dsRooms = rooms
    /\ task = [t \in Slots |-> Idle]
    /\ memberPages = MaxMemberPages
    /\ sat = "idle" /\ teamQueue = << >> /\ teamRun = [tm \in Teams |-> NoRun]
    /\ teamDone = [tm \in Teams |-> None]
    /\ invite = NoInvite
    /\ wait = NoWait

NextMembers ==
    \E t \in Tasks :
        \/ OnDiscoveredPrivateChannel(t)
        \/ MapGetTeam(t)
        \/ MapMembersPage(t)
        \/ MapGetPuppet(t)
        \/ CreateRoomGetGhost(t)
        \/ CreateRoomSettled(t)
        \/ PrivateUpsertRoom(t)
        \/ Reap(t)

SpecMembers == InitMembers /\ [][NextMembers]_vars

-----------------------------------------------------------------------------
(* syncUser (203-226): one item task of the user phase.                    *)

RemoteUsers == {"U1"}
UserItems == [id : RemoteUsers, deleted : BOOLEAN]

\* 204-205: syncUser(teamId, domain, item) up to await getGhostForSlack.
syncUserEnter(teamId, item) ==
    [Entered("syncUser", teamId, item.id) EXCEPT !.pc = "userGetGhost",
                                                 !.deleted = item.deleted]

\* 205-206: getGhostForSlack settled.
UserGetGhost(t) ==
    /\ At(t, "userGetGhost")
    /\ \E ok \in BOOLEAN :
         IF ~ok THEN Throw(t)
         ELSE IF ~task[t].deleted THEN Goto(t, "updateFromISlackUser")
         ELSE Goto(t, "setDisplayName")
    /\ UNCHANGED <<rooms, dsRooms, env>>

\* 207-208: updateFromISlackUser settled.
UserUpdate(t) ==
    /\ At(t, "updateFromISlackUser")
    /\ \E ok \in BOOLEAN : IF ok THEN Return(t, "done") ELSE Throw(t)
    /\ UNCHANGED <<rooms, dsRooms, env>>

\* 211-212: setDisplayName("Deleted User") settled.
UserSetDisplayName(t) ==
    /\ At(t, "setDisplayName")
    /\ \E ok \in BOOLEAN : IF ok THEN Goto(t, "setAvatarUrl") ELSE Throw(t)
    /\ UNCHANGED <<rooms, dsRooms, env>>

\* 212-219: setAvatarUrl(undefined) settled; one leave is issued for every
\* room of main.rooms.all, and i counts the rooms (217).
UserSetAvatarUrl(t) ==
    /\ At(t, "setAvatarUrl")
    /\ \E ok \in BOOLEAN :
         IF ok THEN task' = [task EXCEPT ![t].pc = "leaveAll", ![t].leaving = rooms,
                                         ![t].n = Cardinality(rooms)]
         ELSE Throw(t)
    /\ UNCHANGED <<rooms, dsRooms, env>>

\* 219-223: the leave of one room settled; its own catch counts a failure down.
afterLeavePropagate(r, c, ok) ==
    IF ok THEN [r EXCEPT !.leaving = @ \ {c}] ELSE Settled(r, "threw", None)
afterLeave(r, c, ok) ==
    IF ok THEN [r EXCEPT !.leaving = @ \ {c}]
    ELSE [r EXCEPT !.leaving = @ \ {c}, !.n = @ - 1]

UserLeave(t) ==
    /\ At(t, "leaveAll")
    /\ \E c \in task[t].leaving, ok \in BOOLEAN :
         task' = [task EXCEPT ![t] = afterLeave(@, c, ok)]
    /\ UNCHANGED <<rooms, dsRooms, env>>

\* 218-225: every leave settled, so Promise.all resolved.
UserLeaveAll(t) ==
    /\ At(t, "leaveAll") /\ task[t].leaving = {}
    /\ Return(t, "done")
    /\ UNCHANGED <<rooms, dsRooms, env>>

-----------------------------------------------------------------------------
(* syncAllTeams (46-67) and syncItems (69-120).                            *)

TEAM_SYNC_CONCURRENCY == 1
TEAM_SYNC_CHANNEL_CONCURRENCY == 2

Min(a, b) == IF a < b THEN a ELSE b

\* 76: the condition of the page loop, i iterations done.
syncItemsLoopNoFailsafe(i, cursor) ==
    cursor = "undefined" \/ cursor # ""
syncItemsLoop(i, cursor) ==
    i < TEAM_SYNC_FAILSAFE /\ (cursor = "undefined" \/ cursor # "")

\* 76-92: the loop test after i iterations; a further page is requested or
\* the loop is left for await getTeam (106).
syncItemsIterate(r, i) ==
    IF syncItemsLoop(i, r.cursor)
    THEN [r EXCEPT !.pc = "list", !.fetches = i + 1]
    ELSE [r EXCEPT !.pc = "getTeam"]

\* 70-76: syncItems(teamId, client, type) up to its first await.
syncItems(teamId, type) ==
    LET r == [NoRun EXCEPT !.team = teamId, !.type = type, !.pc = "returned"]
    IN IF ~getTeamSyncConfig(teamConfigs, teamId, type, None).ok THEN r
       ELSE syncItemsIterate(r, 0)

\* 56-57: the channel phase follows the user phase once that one resolved.
channelPhase(teamId) == syncItems(teamId, "channel")

\* 54-58: the team task up to its first await.
teamTask(teamId) ==
    LET u == syncItems(teamId, "user")
    IN IF u.pc = "returned" THEN channelPhase(teamId) ELSE u

teamIsConfigured(teamId) == getTeamSyncConfig(teamConfigs, teamId, None, None).ok   \* 49

\* 47-62: syncAllTeams(teamClients) up to await queue.onIdle(); the queue
\* starts the first TEAM_SYNC_CONCURRENCY tasks as they are added.
teamQueueStartsAll(added) == Len(added)
teamQueueStarts(added) == Min(TEAM_SYNC_CONCURRENCY, Len(added))

SyncAllTeams ==
    /\ sat = "idle"
    /\ LET added == SelectSeq(teamClients, teamIsConfigured)
           k == teamQueueStarts(added)
       IN /\ teamTasks' = added
          /\ teamRun' = [tm \in Teams |->
                           IF \E i \in 1..k : added[i] = tm THEN teamTask(tm) ELSE NoRun]
          /\ teamQueue' = SubSeq(added, k + 1, Len(added))
    /\ sat' = "onIdle"
    /\ UNCHANGED <<rooms, dsRooms, task, fixed, teamDone>>

ItemsOf(type) == IF type = "channel" THEN Channels ELSE UserItems
Pages(r) ==
    {<< >>} \cup (IF Len(r.itemList) < MaxItems
                  THEN {<<x>> : x \in ItemsOf(r.type)} ELSE {})

\* 77-101: conversations.list or users.list settled.
ListSettled(tm) ==
    /\ teamRun[tm].pc = "list"
    /\ \E ok \in BOOLEAN, page \in Pages(teamRun[tm]), cursor \in {"", "more"} :
         LET r == teamRun[tm]
             got == [r EXCEPT !.itemList = @ \o page, !.cursor = cursor]
         IN teamRun' = [teamRun EXCEPT ![tm] =
                          IF ~ok THEN [r EXCEPT !.pc = "threw", !.error = "remote"]
                          ELSE IF cursor # "" THEN [got EXCEPT !.pc = "wait"]
                          ELSE syncItemsIterate(got, r.fetches)]
    /\ UNCHANGED <<rooms, dsRooms, task, teamTasks, teamQueue, sat, fixed, teamDone>>

\* 95-101, 76: the wait between two pages is over.
WaitDone(tm) ==
    /\ teamRun[tm].pc = "wait"
    /\ teamRun' = [teamRun EXCEPT ![tm] = syncItemsIterate(@, @.fetches)]
    /\ UNCHANGED <<rooms, dsRooms, task, teamTasks, teamQueue, sat, fixed, teamDone>>

\* 113, 116: what the item queue runs for the idx-th item.
itemTask(r, idx) ==
    IF r.type = "channel"
    THEN syncChannelEnter([Entered("syncChannel", r.team, r.itemList[idx]) EXCEPT
                              !.linkedAtStart = (r.itemList[idx] \in rooms)])
    ELSE syncUserEnter(r.team, r.itemList[idx])

\* The item tasks of the team that the item queue holds started.
itemTasks(tm) ==
    {t \in Slots : task[t].kind \in {"syncChannel", "syncUser"} /\ task[t].team = tm}

\* 104: the item queue starts what it is given up to its concurrency.
itemQueueStartsAll(list) == Len(list)
itemQueueStarts(list) == Min(TEAM_SYNC_CHANNEL_CONCURRENCY, Len(list))

\* 104-119: datastore.getTeam settled; every item is added to the item queue,
\* which starts the first TEAM_SYNC_CHANNEL_CONCURRENCY of them.
ItemsGetTeam(tm) ==
    /\ teamRun[tm].pc = "getTeam"
    /\ \E ok \in BOOLEAN :
         IF ~ok
         THEN /\ teamRun' = [teamRun EXCEPT ![tm].pc = "threw",
                                            ![tm].error = "No team domain!"]
              /\ UNCHANGED task
         ELSE LET r == teamRun[tm]
                  k == itemQueueStarts(r.itemList)
              IN /\ teamRun' = [teamRun EXCEPT ![tm].pc = "onIdle", ![tm].next = k]
                 /\ task' = [t \in Slots |-> IF t <= k THEN itemTask(r, t) ELSE task[t]]
    /\ UNCHANGED <<rooms, dsRooms, teamTasks, teamQueue, sat, fixed, teamDone>>

\* The item queue sees an item task settle, however it settled, and starts
\* the next item it holds.
itemSettledFailFast(r, how) ==
    IF how = "threw" THEN [r EXCEPT !.pc = "threw"]
    ELSE [r EXCEPT !.next = Min(@ + 1, Len(r.itemList))]
itemSettled(r, how) ==
    [r EXCEPT !.next = Min(@ + 1, Len(r.itemList))]

ItemSettled(tm, t) ==
    /\ teamRun[tm].pc = "onIdle"
    /\ t \in itemTasks(tm) /\ task[t].pc \in {"returned", "threw"}
    /\ LET r == teamRun[tm]
       IN /\ task' = IF r.next < Len(r.itemList)
                     THEN [task EXCEPT ![t] = Idle, ![r.next + 1] = itemTask(r, r.next + 1)]
                     ELSE [task EXCEPT ![t] = Idle]
          /\ teamRun' = [teamRun EXCEPT ![tm] = itemSettled(r, task[t].pc)]
    /\ UNCHANGED <<rooms, dsRooms, teamTasks, teamQueue, sat, fixed, teamDone>>

\* 119, 56-58: queue.onIdle() of the item queue resolved; syncItems returns.
itemQueueIdleAtOnce(tm) == TRUE
itemQueueIdle(tm) ==
    teamRun[tm].next = Len(teamRun[tm].itemList) /\ itemTasks(tm) = {}

ItemsIdle(tm) ==
    /\ teamRun[tm].pc = "onIdle"
    /\ itemQueueIdle(tm)
    /\ teamRun' = [teamRun EXCEPT ![tm] =
                     IF @.type = "user" THEN channelPhase(tm)
                     ELSE [@ EXCEPT !.pc = "returned"]]
    /\ UNCHANGED <<rooms, dsRooms, task, teamTasks, teamQueue, sat, fixed, teamDone>>

\* The team queue sees a team task settle and starts the next one it holds.
teamSettledFailFast(q, how) == IF how = "threw" THEN << >> ELSE q
teamSettled(q, how) == q

TeamTaskSettled(tm) ==
    /\ teamRun[tm].pc \in {"returned", "threw"}
    /\ teamDone' = [teamDone EXCEPT ![tm] = IF teamRun[tm].pc = "returned" THEN "returned"
                                            ELSE teamRun[tm].error]
    /\ LET q == teamSettled(teamQueue, teamRun[tm].pc)
       IN IF q # << >>
          THEN /\ teamRun' = [teamRun EXCEPT ![tm] = NoRun, ![Head(q)] = teamTask(Head(q))]
               /\ teamQueue' = Tail(q)
          ELSE /\ teamRun' = [teamRun EXCEPT ![tm] = NoRun]
               /\ teamQueue' = q
    /\ UNCHANGED <<rooms, dsRooms, task, teamTasks, sat, fixed>>

\* 60-66: queue.onIdle() of the team queue resolved.
SyncAllTeamsIdle ==
    /\ sat = "onIdle" /\ teamQueue = << >>
    /\ \A tm \in Teams : teamRun[tm] = NoRun
    /\ sat' = "returned"
    /\ UNCHANGED <<rooms, dsRooms, task, teamTasks, teamQueue, teamRun, fixed, teamDone>>

-----------------------------------------------------------------------------
(* SpecTeams: syncAllTeams over any configuration of enabled and disabled  *)
(* entries and any map of team clients.                                    *)

TeamPolicies == {p \in ITeamSyncConfig : ~p.channels.present}
ClientMaps == {s \in UNION {[1..n -> Teams] : n \in 0..Cardinality(Teams)} : IsInjective(s)}

InitTeams ==
    /\ config \in ConfigsOver(TeamPolicies)
    /\ teamConfigs = constructor(config)
    /\ query = NoQuery
    /\ answer = Falsy
    /\ teamClients \in ClientMaps
    /\ teamTasks = << >>
    /\ rooms = {}
    /\ dsRooms = rooms
    /\ task = [t \in Slots |-> Idle]
    /\ memberPages = 0
    /\ sat = "idle" /\ teamQueue = << >> /\ teamRun = [tm \in Teams |-> NoRun]
    /\ teamDone = [tm \in Teams |-> None]
    /\ invite = NoInvite
    /\ wait = NoWait

NextTeams == SyncAllTeams

SpecTeams == InitTeams /\ [][NextTeams]_vars

-----------------------------------------------------------------------------
(* SpecInvites: the invite list createRoomForChannel builds (355-356), for *)
(* every list it may be given.                                             *)

botUserId == "@bot"
GhostUserId == "@ghost"
UserIds == {botUserId, GhostUserId, "@alice"}
MaxInvites == 3           \* length of the inviteList argument

\* 355: the test of the filter, kept elements being those it is true of.
inviteKept(x, creatorUserId) == x # creatorUserId \/ x # botUserId

RECURSIVE filterInvites(_, _)
filterInvites(list, creatorUserId) ==
    IF list = << >> THEN << >>
    ELSE (IF inviteKept(Head(list), creatorUserId) THEN <<Head(list)>> ELSE << >>)
         \o filterInvites(Tail(list), creatorUserId)

\* 355-356: the list passed as `invite` to intent.createRoom.
createRoomInvites(list, creatorUserId) ==
    filterInvites(list, creatorUserId) \o <<botUserId>>

\* creatorUserId stays undefined when the ghost lookup of 337 fails.
InitInvites ==
    /\ config = MainConfig
    /\ teamConfigs = constructor(config)
    /\ query = NoQuery
    /\ answer = Falsy
    /\ teamClients = << >>
    /\ teamTasks = << >>
    /\ rooms = {}
    /\ dsRooms = rooms
    /\ task = [t \in Slots |-> Idle]
    /\ memberPages = 0
    /\ sat = "idle" /\ teamQueue = << >> /\ teamRun = [tm \in Teams |-> NoRun]
    /\ teamDone = [tm \in Teams |-> None]
    /\ wait = NoWait
    /\ \E list \in UNION {[1..n -> UserIds] : n \in 0..MaxInvites},
          creatorUserId \in {GhostUserId, None} :
         invite = [NoInvite EXCEPT !.inviteList = list, !.creatorUserId = creatorUserId]

BuildInvites ==
    /\ ~invite.built
    /\ invite' = [invite EXCEPT !.sent = createRoomInvites(invite.inviteList,
                                                          invite.creatorUserId),
                                 !.built = TRUE]
    /\ UNCHANGED <<config, teamConfigs, query, answer, teamClients, teamTasks, rooms,
                   dsRooms, task, memberPages, sat, teamQueue, teamRun, teamDone, wait>>

NextInvites == BuildInvites

SpecInvites == InitInvites /\ [][NextInvites]_vars

-----------------------------------------------------------------------------
(* SpecWait: the delay syncItems waits between two pages (96), for every   *)
(* value of Math.random() * TEAM_SYNC_MAX_WAIT, taken in whole ms.         *)

TEAM_SYNC_MIN_WAIT == 5000
TEAM_SYNC_MAX_WAIT == 15000

\* Math.random() is below 1, so the scaled draw is below TEAM_SYNC_MAX_WAIT.
Draws == 0..(TEAM_SYNC_MAX_WAIT - 1)

\* 96: Math.min(TEAM_SYNC_MIN_WAIT, Math.random() * TEAM_SYNC_MAX_WAIT).
waitMs(draw) == Min(TEAM_SYNC_MIN_WAIT, draw)

InitWait ==
    /\ config = MainConfig
    /\ teamConfigs = constructor(config)
    /\ query = NoQuery
    /\ answer = Falsy
    /\ teamClients = << >>
    /\ teamTasks = << >>
    /\ rooms = {}
    /\ dsRooms = rooms
    /\ task = [t \in Slots |-> Idle]
    /\ memberPages = 0
    /\ sat = "idle" /\ teamQueue = << >> /\ teamRun = [tm \in Teams |-> NoRun]
    /\ teamDone = [tm \in Teams |-> None]
    /\ invite = NoInvite
    /\ \E draw \in Draws : wait = [NoWait EXCEPT !.draw = draw]

ComputeWait ==
    /\ ~wait.waited
    /\ wait' = [wait EXCEPT !.ms = waitMs(wait.draw), !.waited = TRUE]
    /\ UNCHANGED <<config, teamConfigs, query, answer, teamClients, teamTasks, rooms,
                   dsRooms, task, memberPages, sat, teamQueue, teamRun, teamDone, invite>>

NextWait == ComputeWait

SpecWait == InitWait /\ [][NextWait]_vars

-----------------------------------------------------------------------------
(* SpecPass: one syncAllTeams run over the clients of T1 and T2, under     *)
(* {T1: {enabled, channels: {whitelist: [c1]}}, all: {enabled}}.           *)

PassConfig ==
    MainConfig \o <<[team |-> AllKey,
                     policy |-> [enabled |-> TRUE, channels |-> NoChannels]]>>

InitPass ==
    /\ config = PassConfig
    /\ teamConfigs = constructor(config)
    /\ query = NoQuery
    /\ answer = Falsy
    /\ teamClients = <<"T1", "T2">>
    /\ teamTasks = << >>
    /\ rooms \in SUBSET Channels
    /\ dsRooms = rooms
    /\ task = [t \in Slots |-> Idle]
    /\ memberPages = 0
    /\ sat = "idle" /\ teamQueue = << >> /\ teamRun = [tm \in Teams |-> NoRun]
    /\ teamDone = [tm \in Teams |-> None]
    /\ invite = NoInvite
    /\ wait = NoWait

RunStep(tm) ==
    \/ ListSettled(tm)
    \/ WaitDone(tm)
    \/ ItemsGetTeam(tm)
    \/ ItemsIdle(tm)
    \/ TeamTaskSettled(tm)
    \/ \E t \in Slots : ItemSettled(tm, t)

ItemStep(t) ==
    \/ SyncGetTeamClient(t)
    \/ SyncGetTeam(t)
    \/ SyncUsersInfo(t)
    \/ SyncGetClientForSlackUser(t)
    \/ SyncInvite(t)
    \/ SyncPostEphemeral(t)
    \/ CreateRoomGetGhost(t)
    \/ CreateRoomSettled(t)
    \/ SyncActionLink(t)
    \/ UserGetGhost(t)
    \/ UserUpdate(t)
    \/ UserSetDisplayName(t)
    \/ UserSetAvatarUrl(t)
    \/ UserLeave(t)
    \/ UserLeaveAll(t)

NextPass ==
    \/ SyncAllTeams
    \/ \E tm \in Teams : RunStep(tm)
    \/ \E t \in Slots : ItemStep(t)
    \/ SyncAllTeamsIdle

SpecPass == InitPass /\ [][NextPass]_vars

-----------------------------------------------------------------------------
(* SpecOrder: the same run for the two teams in either order of the client *)
(* map, with c2 linked and c1 not.                                         *)

InitOrder ==
    /\ config = PassConfig
    /\ teamConfigs = constructor(config)
    /\ query = NoQuery
    /\ answer = Falsy
    /\ teamClients \in {s \in ClientMaps : Len(s) = Cardinality(Teams)}
    /\ teamTasks = << >>
    /\ rooms = {"c2"}
    /\ dsRooms = rooms
    /\ task = [t \in Slots |-> Idle]
    /\ memberPages = 0
    /\ sat = "idle" /\ teamQueue = << >> /\ teamRun = [tm \in Teams |-> NoRun]
    /\ teamDone = [tm \in Teams |-> None]
    /\ invite = NoInvite
    /\ wait = NoWait

SpecOrder == InitOrder /\ [][NextPass]_vars

-----------------------------------------------------------------------------
(* Claims about channel reconciliation                                     *)

PublicEntryPoints == {"onChannelAdded", "onChannelDeleted", "onDiscoveredPrivateChannel"}
\* The calls that have issued intent.createRoom and have not settled yet.
IssuedCreateRoom(t) == task[t].pc \in {"createRoom", "actionLink", "dsUpsertRoom"}
\* Eligibility of a channel of team T1 by the reference rule of C8.
PolicyEligible(c) ==
    /\ lookupTeamConfig(teamConfigs, MainTeam).ok
    /\ lookupTeamConfig(teamConfigs, MainTeam).policy.enabled
    /\ ReferenceEligible(lookupTeamConfig(teamConfigs, MainTeam).policy, c)

\* C1: among the calls running at the same time for one channel id, at most
\* one has issued a room-creation call (and so at most one writes a link).
C1_OneCreationPerChannel ==
    \A t1, t2 \in Tasks :
        (IssuedCreateRoom(t1) /\ IssuedCreateRoom(t2) /\ task[t1].chan = task[t2].chan)
            => t1 = t2

\* C2 as stated: a syncChannel call invoked while the channel had a link in
\* the registry never issues a room-creation call nor writes a link.
C2_LinkedAtInvocationNeverProvisions ==
    \A t \in Tasks : task[t].linkedAtStart => ~IssuedCreateRoom(t)

\* C2 as amended: a call that finds a link when it makes its existence check
\* (onChannelAdded 152 and onDiscoveredPrivateChannel 173 at invocation,
\* syncChannel 235 once the team-client lookup has settled) settles in that
\* very step, so it issues no room-creation call, and it writes no link.
C2_LinkFoundNeverProvisions ==
    [][\A t \in Tasks :
          /\ (task[t].pc = "getTeamClient" /\ task'[t] # task[t]
                 /\ task[t].chan \in rooms)
             => (task'[t].pc \in {"returned", "threw"}
                 /\ rooms' = rooms /\ dsRooms' = dsRooms)
          /\ (task[t].pc = "idle" /\ task'[t] # task[t]
                 /\ task'[t].kind \in {"onChannelAdded", "onDiscoveredPrivateChannel"}
                 /\ task'[t].chan \in rooms)
             => (task'[t].pc = "returned"
                 /\ rooms' = rooms /\ dsRooms' = dsRooms)]_vars

\* C2 witness: a syncChannel call of the item queue returned because the
\* channel, eligible and so otherwise provisioned, already had a link.
C2_Witness ==
    \E t \in Tasks :
        /\ task[t].kind = "syncChannel" /\ task[t].pc = "returned"
        /\ task[t].exit = "exists" /\ task[t].chan \in rooms
        /\ PolicyEligible(task[t].chan)

\* C3: no public entry point throws to its caller.
C3_EntryPointsNeverThrow ==
    \A t \in Tasks : task[t].pc = "threw" => task[t].kind \notin PublicEntryPoints

\* The page loop of the team's syncItems call is over and the call goes on.
PageLoopLeft(r) == r.pc \in {"getTeam", "onIdle"}
ItemId(r, i) == IF r.type = "channel" THEN r.itemList[i] ELSE r.itemList[i].id

\* C4: the page loop of syncItems requests at most TEAM_SYNC_FAILSAFE (10)
\* pages, also when every page names a next cursor; it is left before the
\* tenth request exactly when a page returned the cursor "", and leaving it
\* at the bound is no error: the call goes on to getTeam with the items
\* gathered so far, and these are what the item queue is given.
C4_PageLoopBounded ==
    /\ [](\A tm \in Teams :
            LET r == teamRun[tm]
            IN /\ r.fetches <= TEAM_SYNC_FAILSAFE
               /\ PageLoopLeft(r) /\ r.fetches < TEAM_SYNC_FAILSAFE => r.cursor = ""
               /\ r.pc \in {"list", "wait"} => r.cursor # "")
    /\ [][\A tm \in Teams :
            LET r == teamRun[tm]
                k == Min(TEAM_SYNC_CHANNEL_CONCURRENCY, Len(r.itemList))
            IN /\ r.pc = "wait" /\ r.fetches = TEAM_SYNC_FAILSAFE /\ teamRun'[tm] # r
                  => teamRun'[tm] = [r EXCEPT !.pc = "getTeam"]
               /\ r.pc = "getTeam" /\ teamRun'[tm].pc = "onIdle"
                  => /\ teamRun'[tm] = [r EXCEPT !.pc = "onIdle", !.next = k]
                     /\ \A i \in 1..k : /\ task'[i].team = tm
                                        /\ task'[i].chan = ItemId(r, i)]_vars

\* The bound was reached with a next cursor pending and the gathered items
\* run on the item queue.
C4_Witness ==
    \E tm \in Teams :
        LET r == teamRun[tm]
        IN /\ r.pc = "onIdle" /\ r.fetches = TEAM_SYNC_FAILSAFE /\ r.cursor = "more"
           /\ r.itemList # << >> /\ itemTasks(tm) # {}

\* C5: the member enumeration of onDiscoveredPrivateChannel requests at most
\* TEAM_SYNC_FAILSAFE (10) pages, whatever cursors the remote returns.
C5_MemberPagesBounded ==
    \A t \in Tasks : task[t].n <= TEAM_SYNC_FAILSAFE

\* The policy configured for the team: its own entry, else the "all" entry.
ConfiguredEnabled(cfg, tm) ==
    IF HasEntry(cfg, tm) THEN EntryOf(cfg, tm).enabled
    ELSE HasEntry(cfg, AllKey) /\ EntryOf(cfg, AllKey).enabled
Occurrences(s, x) == Cardinality({i \in DOMAIN s : s[i] = x})

\* C7: syncAllTeams adds exactly one team task for every team that has a
\* client and whose configured policy (own entry, else "all") is enabled,
\* whatever the other entries of the configuration are, and none for the rest.
C7_OneTaskPerEnabledTeam ==
    sat # "idle" =>
        \A tm \in Teams :
            Occurrences(teamTasks, tm) =
                IF Occurrences(teamClients, tm) = 1 /\ ConfiguredEnabled(config, tm)
                THEN 1 ELSE 0

\* C11: syncUser for a deleted user goes through setDisplayName and
\* setAvatarUrl and then issues one leave for every room the registry holds;
\* each leave settles on its own, a failed one keeps the others pending and
\* never makes syncUser throw, and the call returns once all have settled.
\* For a user that is not deleted only the profile update is made: no leave
\* is ever pending.
C11_DeletedUserLeavesEveryRoom ==
    [][\A t \in Slots :
          LET r == task[t]
              r2 == task'[t]
          IN r.kind = "syncUser" /\ r2 # r =>
               /\ r.pc = "userGetGhost" /\ r2.pc # "threw" =>
                     r2.pc = (IF r.deleted THEN "setDisplayName" ELSE "updateFromISlackUser")
               /\ r.pc = "setDisplayName" /\ r2.pc # "threw" => r2.pc = "setAvatarUrl"
               /\ r.pc = "setAvatarUrl" /\ r2.pc # "threw" =>
                     r2.pc = "leaveAll" /\ r2.leaving = rooms
               /\ r.pc = "leaveAll" =>
                     \/ \E c \in r.leaving : r2.pc = "leaveAll" /\ r2.leaving = r.leaving \ {c}
                     \/ r.leaving = {} /\ r2.pc = "returned"
               /\ r.pc = "updateFromISlackUser" => r2.pc \in {"returned", "threw"}
               /\ ~r.deleted => r2.leaving = {} /\ r2.pc \notin {"setDisplayName", "setAvatarUrl", "leaveAll"}]_vars

\* A deleted user's leaves have all settled, every one of them failed, and
\* the registry holds two rooms.
C11_Witness ==
    \E t \in Slots :
        /\ task[t].kind = "syncUser" /\ task[t].deleted /\ task[t].pc = "leaveAll"
        /\ task[t].leaving = {} /\ task[t].n = 0 /\ rooms = Channels

\* C12: within one syncItems call an item task that threw is handled by the
\* item queue like one that returned: the next item of the list is started in
\* its place, the other running item task is left as it is, and syncItems
\* goes on (to the channel phase, or returns) once every item has been
\* started and has settled; it never throws after the items were queued.
C12_ItemFailureIsolated ==
    [][\A tm \in Teams :
          LET r == teamRun[tm]
              r2 == teamRun'[tm]
          IN r.pc = "onIdle" =>
               /\ \/ r2.pc = "onIdle" /\ r2.itemList = r.itemList /\ r2.next >= r.next
                  \/ /\ r.next = Len(r.itemList) /\ itemTasks(tm) = {}
                     /\ r2 = (IF r.type = "user" THEN channelPhase(tm)
                              ELSE [r EXCEPT !.pc = "returned"])
               /\ \A t \in itemTasks(tm) :
                     task[t].pc = "threw" /\ task'[t] # task[t] =>
                        /\ task'[t] = Idle
                        /\ r2.next = Min(r.next + 1, Len(r.itemList))
                        /\ \A u \in Slots \ {t} :
                              task'[u] = (IF r.next < Len(r.itemList) /\ u = r.next + 1
                                          THEN itemTask(r, u) ELSE task[u])]_vars

\* All three items of a list were started; one item task threw and another
\* item task of the team is still under way.
C12_Witness ==
    \E tm \in Teams, t, u \in Slots :
        /\ teamRun[tm].pc = "onIdle" /\ teamRun[tm].next = 3
        /\ t # u /\ task[t].pc = "threw" /\ task[t].team = tm
        /\ task[u].team = tm /\ task[u].pc \notin {"returned", "threw", "idle"}

\* C13: a team task whose syncItems call finds no Team record (or no domain)
\* throws before any item is queued: no item task of the team runs and its
\* channel phase is never entered.  The team queue then starts the next team
\* it holds as if the task had returned, leaves the other team tasks alone,
\* and syncAllTeams returns only once every team task has settled.
C13_MissingTeamAbortsOnlyItsPass ==
    /\ [](\A tm \in Teams :
            /\ teamRun[tm].pc = "threw" => teamRun[tm].next = 0 /\ itemTasks(tm) = {}
            /\ sat = "returned" => teamRun[tm] = NoRun /\ teamQueue = << >>)
    /\ [][\A tm \in Teams :
            LET r == teamRun[tm]
            IN /\ r.pc = "getTeam" /\ teamRun'[tm].pc = "threw" => task' = task
               /\ r.pc = "threw" /\ teamRun'[tm] # r =>
                    /\ teamRun'[tm] = NoRun /\ teamDone'[tm] = r.error /\ sat' = "onIdle"
                    /\ \A o \in Teams \ {tm} :
                          teamRun'[o] = (IF teamQueue # << >> /\ o = Head(teamQueue)
                                         THEN teamTask(o) ELSE teamRun[o])]_vars

\* T1 had no Team record; T2 after it went through both phases and its
\* channel items.
C13_Witness ==
    /\ teamDone["T1"] = "No team domain!"
    /\ teamRun["T2"].pc = "returned" /\ teamRun["T2"].type = "channel"
    /\ teamRun["T2"].next = Len(teamRun["T2"].itemList) /\ teamRun["T2"].next > 0

\* The team tasks in progress: started by the team queue and not yet settled.
InProgress == {tm \in Teams : teamRun[tm].pc \notin {None, "returned", "threw"}}

\* C14: at most one team task is in progress at any moment, every item task
\* belongs to it, and the teams are started in the order of the client map:
\* the tasks started so far are a prefix of the teams added, all of them
\* settled but the last.
C14_TeamsOneAtATimeInOrder ==
    /\ Cardinality(InProgress) <= 1
    /\ \A t \in Slots : task[t].pc # "idle" => task[t].team \in InProgress
    /\ \A i, j \in DOMAIN teamTasks :
          i < j => \E a, b \in DOMAIN teamClients :
                      a < b /\ teamClients[a] = teamTasks[i] /\ teamClients[b] = teamTasks[j]
    /\ sat = "onIdle" =>
          \E k \in 0..Len(teamTasks) :
              /\ teamQueue = SubSeq(teamTasks, k + 1, Len(teamTasks))
              /\ \A i \in 1..k : teamRun[teamTasks[i]] # NoRun \/ teamDone[teamTasks[i]] # None
              /\ \A i \in 1..(k - 1) : teamRun[teamTasks[i]] = NoRun
              /\ \A i \in (k + 1)..Len(teamTasks) :
                    teamRun[teamTasks[i]] = NoRun /\ teamDone[teamTasks[i]] = None

\* T2 comes first in the client map: its task has settled and that of T1 has
\* item tasks under way.
C14_Witness ==
    /\ teamClients = <<"T2", "T1">>
    /\ teamDone["T2"] = "returned" /\ teamRun["T2"] = NoRun
    /\ teamRun["T1"].pc = "onIdle" /\ itemTasks("T1") # {}

\* C15: in a team task the channel phase begins only when the user phase has
\* returned: while the task is in its user phase no syncChannel task of the
\* team exists, once it is in its channel phase no syncUser task of the team
\* is left, the step into the channel phase is taken with every user item
\* started and settled, and a user phase that threw ends the team task.
C15_UsersBeforeChannels ==
    /\ [](\A tm \in Teams : \A t \in itemTasks(tm) :
            /\ teamRun[tm].pc = "onIdle"
            /\ task[t].kind = (IF teamRun[tm].type = "user" THEN "syncUser" ELSE "syncChannel"))
    /\ [][\A tm \in Teams :
            LET r == teamRun[tm]
                r2 == teamRun'[tm]
            IN r.type = "user" /\ r2 # r =>
                 /\ r2.type = "channel" =>
                       /\ r.pc = "onIdle" /\ r.next = Len(r.itemList)
                       /\ itemTasks(tm) = {}
                       /\ r2.fetches <= 1 /\ r2.itemList = << >>
                 /\ r.pc = "threw" => r2 = NoRun]_vars

\* The team task of T1 is in its channel phase and a syncChannel call of its
\* item queue is under way.
C15_Witness ==
    /\ teamRun["T1"].type = "channel" /\ teamRun["T1"].pc = "onIdle"
    /\ \E t \in itemTasks("T1") : task[t].pc = "getTeamClient"

\* C16: during a syncAllTeams run at most TEAM_SYNC_CHANNEL_CONCURRENCY (2)
\* item tasks hold a place of the item queue at any moment, and an item task
\* exists only once the page loop of its phase is over and getTeam has
\* settled; which of two running items settles first is not fixed.
C16_AtMostTwoItemTasks ==
    /\ Cardinality({t \in Slots : task[t].pc # "idle"}) <= TEAM_SYNC_CHANNEL_CONCURRENCY
    /\ \A t \in Slots : task[t].pc # "idle" =>
          /\ task[t].kind \in {"syncChannel", "syncUser"}
          /\ teamRun[task[t].team].pc = "onIdle"
          /\ t <= teamRun[task[t].team].next

\* The second item of a list has settled while the first is still under way,
\* and the third has not been started.
C16_Witness ==
    \E tm \in Teams :
        /\ teamRun[tm].pc = "onIdle" /\ Len(teamRun[tm].itemList) = 3 /\ teamRun[tm].next = 2
        /\ task[2].pc \in {"returned", "threw"}
        /\ task[1].pc \notin {"idle", "returned", "threw"}

\* C17: in syncChannel for an eligible, unlinked public channel the hint is
\* posted exactly when the invite by the creator's client failed or there was
\* no such client; however the hint settles, the call goes on to room
\* creation; a created room is followed by the link attempt, and the link is
\* written only by that attempt, after createRoom returned a room id.
C17_HintIffInviteFailedThenProvision ==
    /\ [](\A t \in Tasks : task[t].pc = "postEphemeral" <=> task[t].inviteFailed)
    /\ [][\A t \in Tasks :
            LET r == task[t]
                r2 == task'[t]
            IN r.kind \in {"syncChannel", "onChannelAdded"} /\ r2 # r =>
                 /\ r.pc = "getClientForSlackUser" => r2.pc \in {"invite", "postEphemeral"}
                 /\ r.pc = "invite" => r2.pc \in {"getGhost", "postEphemeral"}
                 /\ r.pc = "postEphemeral" => r2.pc = "getGhost"
                 /\ r2.pc = "getGhost" => r.pc \in {"invite", "postEphemeral"}
                 /\ r.pc = "getGhost" => r2.pc = "createRoom"
                 /\ r.pc = "createRoom" =>
                       /\ r2.pc = "actionLink" \/ (r2.pc = "returned" /\ r2.exit = "done")
                       /\ rooms' = rooms
                 /\ r2.pc = "actionLink" => r.pc = "createRoom"
                 /\ r.pc # "actionLink" /\ r.chan \notin rooms /\ r.chan \in rooms' =>
                       \E u \in Tasks \ {t} : task[u].pc \in {"actionLink", "createRoom"}
                                              /\ task[u].chan = r.chan]_vars

\* The invite for a public channel failed and the hint is being posted.
C17_Witness ==
    \E t \in Tasks :
        /\ task[t].kind = "syncChannel" /\ task[t].pc = "postEphemeral"
        /\ task[t].inviteFailed /\ task[t].item.is_channel /\ task[t].chan \notin rooms

RECURSIVE Without(_, _)
Without(list, ids) ==
    IF list = << >> THEN << >>
    ELSE (IF Head(list) \in ids THEN << >> ELSE <<Head(list)>>) \o Without(Tail(list), ids)

\* C18: the invite list sent with the room creation is the given list without
\* the creator's ghost and without the bot, followed by the bot: the bot is in
\* it exactly once and the creator is not in it.
C18_InviteListDeduplicated ==
    invite.built =>
        /\ invite.sent = Without(invite.inviteList, {invite.creatorUserId, botUserId})
                         \o <<botUserId>>
        /\ Occurrences(invite.sent, botUserId) = 1
        /\ Occurrences(invite.sent, invite.creatorUserId) = 0

\* C19: a provisioning attempt that fails after its room was created leaves
\* nothing half-linked: unless a call is between its registry write and its
\* datastore write for the channel, the registry holds a link for the channel
\* exactly if the datastore holds one.
C19_RegistryAgreesWithDatastore ==
    \A c \in Channels :
        (\A t \in Tasks : ~(task[t].chan = c /\ task[t].pc = "dsUpsertRoom"))
            => (c \in rooms <=> c \in dsRooms)

\* C20: the delay waited between two pages lies within the configured
\* bounds, TEAM_SYNC_MIN_WAIT <= delay <= TEAM_SYNC_MAX_WAIT, for every draw.
C20_WaitWithinBounds ==
    wait.waited => TEAM_SYNC_MIN_WAIT <= wait.ms /\ wait.ms <= TEAM_SYNC_MAX_WAIT

\* C9: every room-creation call is for a channel that is eligible under the
\* team's policy and of the type its entry point admits: a public channel
\* (is_channel, not is_private), created public, via syncChannel or
\* onChannelAdded; a private channel (is_private, neither is_im nor is_mpim),
\* created non-public, via onDiscoveredPrivateChannel.  Under the whitelist
\* [c1] no room is ever created for c2.
C9_CreateRoomOnlyWhenAdmissible ==
    \A t \in Tasks : task[t].pc = "createRoom" =>
        /\ PolicyEligible(task[t].chan)
        /\ task[t].kind \in {"syncChannel", "onChannelAdded", "onDiscoveredPrivateChannel"}
        /\ task[t].kind \in {"syncChannel", "onChannelAdded"} =>
              (task[t].item.is_channel /\ ~task[t].item.is_private /\ task[t].isPublic)
        /\ task[t].kind = "onDiscoveredPrivateChannel" =>
              (task[t].item.is_private /\ ~task[t].item.is_im /\ ~task[t].item.is_mpim
               /\ ~task[t].isPublic)

\* C9 witness: a public and a private room-creation call are pending at once.
C9_Witness ==
    \E t1, t2 \in Tasks :
        /\ task[t1].pc = "createRoom" /\ task[t1].kind = "syncChannel"
        /\ task[t2].pc = "createRoom" /\ task[t2].kind = "onDiscoveredPrivateChannel"

\* C10: onChannelDeleted for an eligible channel with a link goes through the
\* notice, the directory hide and the unlink, in this order, whatever the
\* outcome of the first two; when the unlink succeeds the link is gone.
C10_DeleteAlwaysAttemptsUnlink ==
    [][\A t \in Tasks :
          /\ (task[t].pc = "idle" /\ task'[t].kind = "onChannelDeleted"
                 /\ PolicyEligible(task'[t].chan) /\ task'[t].chan \in rooms)
             => task'[t].pc = "sendMessage"
          /\ (task[t].pc = "sendMessage" /\ task'[t] # task[t])
             => task'[t].pc = "setRoomDirectoryVisibility"
          /\ (task[t].pc = "setRoomDirectoryVisibility" /\ task'[t] # task[t])
             => task'[t].pc = "actionUnlink"
          /\ (task[t].pc = "actionUnlink" /\ task'[t].exit = "unlinked")
             => (task[t].chan \notin rooms' /\ task[t].chan \notin dsRooms')]_vars

\* C10 witness: the notice threw, the unlink succeeded, the link is gone.
C10_Witness ==
    \E t \in Tasks :
        /\ task[t].kind = "onChannelDeleted" /\ task[t].pc = "returned"
        /\ task[t].exit = "unlinked" /\ task[t].noticeFailed
        /\ task[t].chan \notin rooms

====
